---------------------------- MODULE Spec2Model ----------------------------
(***************************************************************************)
(* A model of VuetifyJetValidator (src/VuetifyJetValidator.js).            *)
(*                                                                         *)
(*   - JavaScript values are tagged records; strings are sequences of      *)
(*     one-character strings so that length, coercion and the regular      *)
(*     expressions are computed, not assumed.                              *)
(*   - The eight rule factories of VuetifyJetValidator.prototype.rules     *)
(*     are operators taking the factory's arguments and the value the      *)
(*     returned decision function is applied to.                           *)
(*   - The validator instances, the rules table they share through the     *)
(*     prototype, and the call stack of form.validate() passes are the     *)
(*     state of specification Spec.  Specification SpecRules applies the   *)
(*     decision functions to bounded sets of inputs.                       *)
(***************************************************************************)
EXTENDS Integers, Sequences, FiniteSets

VARIABLES
    constructed,       \* the validator instances created so far by `new`
    VALIDATOR_OBJECT,  \* prototype.rules.__VALIDATOR_OBJECT (one shared slot)
    form,              \* this.form of each instance
    apiErrors,         \* this.apiErrors of each instance (an array)
    stack,             \* the form.validate() calls in progress, outermost first
    lastCall,          \* the latest setRequestApiError event (call, return, throw)
    fields,            \* the object a matches rule refers to (README `fields`)
    input,             \* SpecRules: the rule and the value it is applied to
    evalLog            \* the decision function applied by the step just taken

vars == <<constructed, VALIDATOR_OBJECT, form, apiErrors, stack, lastCall,
          fields, input, evalLog>>

---------------------------------------------------------------------------
(* Bounds of the model.                                                    *)

\* form.validate() passes nested at most this deep (1 = no re-entrancy)
MaxDepth == 2
\* the `length` argument of maxLength/minLength ranges over 0..MaxLimit
MaxLimit == 3
\* the arrays among the inputs have 0..MaxArrayLen elements
MaxArrayLen == 1

---------------------------------------------------------------------------
(* JavaScript values.                                                      *)

Undefined == [t |-> "undefined", n |-> 0, s |-> <<>>]
Null == [t |-> "null", n |-> 0, s |-> <<>>]
Bool(b) == [t |-> "boolean", n |-> IF b THEN 1 ELSE 0, s |-> <<>>]
Num(k) == [t |-> "number", n |-> k, s |-> <<>>]
Str(chars) == [t |-> "string", n |-> 0, s |-> chars]
\* an array of one-character strings
Arr(items) == [t |-> "array", n |-> 0, s |-> items]
JsTrue == Bool(TRUE)

\* ToBoolean: the truthiness `!v`, `v && ...` and `... || message` test
ToBoolean(v) ==
    CASE v.t = "undefined" -> FALSE
      [] v.t = "null" -> FALSE
      [] v.t = "boolean" -> v.n = 1
      [] v.t = "number" -> v.n # 0
      [] v.t = "string" -> Len(v.s) > 0
      [] OTHER -> TRUE

DigitChars == <<"0", "1", "2", "3", "4", "5", "6", "7", "8", "9">>

RECURSIVE NatToChars(_)
NatToChars(k) ==
    IF k < 10 THEN <<DigitChars[k + 1]>>
    ELSE NatToChars(k \div 10) \o <<DigitChars[(k % 10) + 1]>>

RECURSIVE Join(_)
\* Array.prototype.join(","): what ToString does to an array
Join(items) ==
    IF Len(items) = 0 THEN <<>>
    ELSE IF Len(items) = 1 THEN <<items[1]>>
    ELSE <<items[1], ",">> \o Join(Tail(items))

\* ToString: the coercion RegExp.prototype.test applies to its argument,
\* and the one a template literal applies to ${length}
ToString(v) ==
    CASE v.t = "undefined" -> <<"u", "n", "d", "e", "f", "i", "n", "e", "d">>
      [] v.t = "null" -> <<"n", "u", "l", "l">>
      [] v.t = "boolean" ->
            IF v.n = 1 THEN <<"t", "r", "u", "e">>
            ELSE <<"f", "a", "l", "s", "e">>
      [] v.t = "number" -> NatToChars(v.n)
      [] v.t = "string" -> v.s
      [] OTHER -> Join(v.s)

\* v.length for a value that is not undefined or null
GetLength(v) ==
    IF v.t \in {"string", "array"} THEN Num(Len(v.s)) ELSE Undefined

\* a > k and a < k for a number k; undefined compares false both ways
GreaterThan(a, k) == a.t = "number" /\ a.n > k
LessThan(a, k) == a.t = "number" /\ a.n < k

\* a === b on primitive values
StrictEquals(a, b) == a = b

---------------------------------------------------------------------------
(* Regular expressions, by the set of positions a match can have reached.  *)

Lower == {"a", "b", "c", "d", "e", "f", "g", "h", "i", "j", "k", "l", "m",
          "n", "o", "p", "q", "r", "s", "t", "u", "v", "w", "x", "y", "z"}
Upper == {"A", "B", "C", "D", "E", "F", "G", "H", "I", "J", "K", "L", "M",
          "N", "O", "P", "Q", "R", "S", "T", "U", "V", "W", "X", "Y", "Z"}
Digit == {"0", "1", "2", "3", "4", "5", "6", "7", "8", "9"}
\* \w and [a-zA-Z0-9_]
Word == Lower \cup Upper \cup Digit \cup {"_"}
\* \s, as far as the inputs go
Space == {" ", "\t", "\n", "\r"}
LineTerminator == {"\n", "\r"}

\* one character of class C
Step(P, C, s) == {p + 1 : p \in {q \in P : q <= Len(s) /\ s[q] \in C}}
\* C?
Opt(P, C, s) == P \cup Step(P, C, s)

RECURSIVE Times(_, _, _, _)
\* C{k}
Times(P, C, k, s) == IF k = 0 THEN P ELSE Times(Step(P, C, s), C, k - 1, s)

\* C{lo,hi}
Between(P, C, lo, hi, s) == UNION {Times(P, C, k, s) : k \in lo..hi}

RECURSIVE Star(_, _, _)
\* C*
Star(P, C, s) ==
    LET Q == P \cup Step(P, C, s) IN IF Q = P THEN P ELSE Star(Q, C, s)

\* C+
Plus(P, C, s) == Star(Step(P, C, s), C, s)

RECURSIVE GroupStar(_, _, _)
\* ([sep]?\w+)*
GroupStar(P, Sep, s) ==
    LET Q == P \cup Plus(Opt(P, Sep, s), Word, s)
    IN  IF Q = P THEN P ELSE GroupStar(Q, Sep, s)

\* (\.\w{2,24})
TldOnce(P, s) == Between(Step(P, {"."}, s), Word, 2, 24, s)

RECURSIVE TldStar(_, _)
TldStar(P, s) ==
    LET Q == P \cup TldOnce(P, s) IN IF Q = P THEN P ELSE TldStar(Q, s)

\* /^\w+([.\-+]?\w+)*\+*@\w+([.-]?\w+)*(\.\w{2,24})+$/.test(s)
EmailTest(s) ==
    LET p1 == Plus({1}, Word, s)
        p2 == GroupStar(p1, {".", "-", "+"}, s)
        p3 == Star(p2, {"+"}, s)
        p4 == Step(p3, {"@"}, s)
        p5 == Plus(p4, Word, s)
        p6 == GroupStar(p5, {".", "-"}, s)
        p7 == TldStar(TldOnce(p6, s), s)
    IN  (Len(s) + 1) \in p7

\* /^[+]?[(]?[0-9]{3}[)]?[-\s.]?[0-9]{3}[-\s.]?[0-9]{4,6}$/im.test(s)
\* (flag m: ^ and $ also match at the line terminators)
PhoneTest(s) ==
    LET starts == {p \in 1..(Len(s) + 1) : p = 1 \/ s[p - 1] \in LineTerminator}
        ends == {p \in 1..(Len(s) + 1) : p = Len(s) + 1 \/ s[p] \in LineTerminator}
        sep == {"-", "."} \cup Space
        p1 == Opt(starts, {"+"}, s)
        p2 == Opt(p1, {"("}, s)
        p3 == Times(p2, Digit, 3, s)
        p4 == Opt(p3, {")"}, s)
        p5 == Opt(p4, sep, s)
        p6 == Times(p5, Digit, 3, s)
        p7 == Opt(p6, sep, s)
        p8 == Between(p7, Digit, 4, 6, s)
    IN  (p8 \cap ends) # {}

\* /^[a-zA-Z0-9_]+$/.test(s)
UsernameTest(s) == (Len(s) + 1) \in Plus({1}, Word, s)

---------------------------------------------------------------------------
(* The default messages.                                                   *)

DefaultEmailMessage ==
    Str(<<"I", "n", "v", "a", "l", "i", "d", " ", "e", "m", "a", "i", "l", " ",
          "a", "d", "d", "r", "e", "s", "s", " ", "f", "o", "r", "m", "a", "t",
          ".">>)
DefaultPhoneMessage ==
    Str(<<"I", "n", "v", "a", "l", "i", "d", " ", "p", "h", "o", "n", "e", " ",
          "n", "u", "m", "b", "e", "r", " ", "f", "o", "r", "m", "a", "t">>)
DefaultRequiredMessage ==
    Str(<<"T", "h", "i", "s", " ", "f", "i", "e", "l", "d", " ", "i", "s", " ",
          "r", "e", "q", "u", "i", "r", "e", "d", ".">>)
DefaultUsernameMessage ==
    Str(<<"O", "n", "l", "y", " ", "l", "e", "t", "t", "e", "r", "s", ",", " ",
          "n", "u", "m", "b", "e", "r", "s", " ", "a", "n", "d", " ", "u", "n",
          "d", "e", "r", "s", "c", "o", "r", "e", " ", "a", "r", "e", " ", "a",
          "l", "l", "o", "w", "e", "d", ".">>)
CharactersAllowed ==
    <<" ", "c", "h", "a", "r", "a", "c", "t", "e", "r", "s", " ", "a", "l", "l",
      "o", "w", "e", "d", ".">>
\* `Max ${length} characters allowed.`
DefaultMaxLengthMessage(length) ==
    Str(<<"M", "a", "x", " ">> \o ToString(Num(length)) \o CharactersAllowed)
\* `Min ${length} characters allowed.`
DefaultMinLengthMessage(length) ==
    Str(<<"M", "i", "n", " ">> \o ToString(Num(length)) \o CharactersAllowed)

---------------------------------------------------------------------------
(* The domains the operations draw their arguments from.                   *)

Validators == {"A", "B"}
Forms == {"signupForm"}
NoForm == "null"
Codes == {"dup-email", "other"}
Props == {"password", "email"}

Chars(k, c) == [i \in 1..k |-> c]

\* the strings among the inputs
Strings ==
    { <<>>,
      <<"x">>,
      <<"1">>,
      <<"a", "b", "c", "d", "e", "f">>,
      <<"a", "@", "b", ".", "c", "o">>,
      <<"n", "o", "t", "-", "a", "n", "-", "e", "m", "a", "i", "l">>,
      <<"a", "@", "b", ".">> \o Chars(24, "x"),
      <<"a", "@", "b", ".">> \o Chars(25, "x"),
      <<"v", "a", "l", "i", "d", "_", "1", "2", "3">>,
      <<"b", "a", "d", " ", "n", "a", "m", "e", "!">>,
      <<"5", "5", "5", "-", "1", "2", "3", "-", "4", "5", "6", "7">>,
      <<"a", "b", "c", "\n", "5", "5", "5", "1", "2", "3", "4", "5", "6", "7">>,
      <<"s", "e", "c", "r", "e", "t">> }

Primitives ==
    {Undefined, Null, Bool(TRUE), Bool(FALSE), Num(0), Num(1), Num(1234567890)}
        \cup {Str(s) : s \in Strings}

\* the values a decision function is applied to
InputValues == Primitives \cup {Arr(Chars(k, "x")) : k \in 0..MaxArrayLen}

\* the `message` argument: omitted, empty, or a text
Taken == Str(<<"t", "a", "k", "e", "n">>)
MessageArgs == {Undefined, Str(<<>>), Taken}

\* the values written to a property of `fields`
FieldValues ==
    {Undefined, Num(1), Str(<<>>), Str(<<"1">>),
     Str(<<"s", "e", "c", "r", "e", "t">>)}

\* README data(): every field starts as the empty string
InitFields == [p \in Props |-> Str(<<>>)]

---------------------------------------------------------------------------
(* The rule factories: the factory's arguments, then the value `v` the     *)
(* returned decision function is applied to.                               *)

\* mutant: the factory forgets its default
NoDefault(message, default) == message

\* if (!message) { message = <default>; }
MessageOrDefault(message, default) ==
    IF ~ToBoolean(message) THEN default ELSE message

\* Array.prototype.indexOf
IndexOf(array, x) ==
    IF \E i \in 1..Len(array) : array[i] = x
    THEN (CHOOSE i \in 1..Len(array) :
            array[i] = x /\ \A j \in 1..(i - 1) : array[j] # x) - 1
    ELSE -1

\* mutant: the index tested for truthiness, so that index 0 counts as absent
ApiRuleIndexTruthy(errorCode, message, v) ==
    IF IndexOf(apiErrors[VALIDATOR_OBJECT], errorCode) > 0
    THEN message
    ELSE JsTrue

\* rules.api(errorCode, message)(v): `this` is the rules object of the
\* prototype, so the array read is that of this.__VALIDATOR_OBJECT
ApiRule(errorCode, message, v) ==
    IF IndexOf(apiErrors[VALIDATOR_OBJECT], errorCode) # -1
    THEN message
    ELSE JsTrue

\* rules.email(message)(v)
EmailRule(message, v) ==
    LET m == MessageOrDefault(message, DefaultEmailMessage)
    IN  IF EmailTest(ToString(v)) THEN JsTrue ELSE m

\* rules.phone(message)(v)
PhoneRule(message, v) ==
    LET m == MessageOrDefault(message, DefaultPhoneMessage)
    IN  IF PhoneTest(ToString(v)) THEN JsTrue ELSE m

\* mutant: the property read when the rule is built, not when it runs
MatchesRuleEager(object, propertyName, message, v) ==
    LET compare == InitFields[propertyName]
    IN  IF StrictEquals(compare, v) THEN JsTrue ELSE message

\* rules.matches(object, propertyName, message)(v); `object` is the
\* referenced object as it is when the decision function runs
MatchesRule(object, propertyName, message, v) ==
    LET compare == object[propertyName]
    IN  IF StrictEquals(compare, v) THEN JsTrue ELSE message

\* rules.maxLength(length, message)(v)
MaxLengthRule(length, message, v) ==
    LET m == MessageOrDefault(message, DefaultMaxLengthMessage(length))
    IN  IF ToBoolean(v) /\ GreaterThan(GetLength(v), length) THEN m ELSE JsTrue

\* rules.minLength(length, message)(v)
MinLengthRule(length, message, v) ==
    LET m == MessageOrDefault(message, DefaultMinLengthMessage(length))
    IN  IF ToBoolean(v) /\ LessThan(GetLength(v), length) THEN m ELSE JsTrue

\* rules.required(message)(v): !v || (v.length && v.length < 1)
RequiredRule(message, v) ==
    LET m == MessageOrDefault(message, DefaultRequiredMessage)
        len == GetLength(v)
        lengthBelowOne == IF ToBoolean(len) THEN Bool(LessThan(len, 1)) ELSE len
    IN  IF ~ToBoolean(v) \/ ToBoolean(lengthBelowOne) THEN m ELSE JsTrue

\* rules.username(message)(v)
UsernameRule(message, v) ==
    LET m == MessageOrDefault(message, DefaultUsernameMessage)
    IN  IF UsernameTest(ToString(v)) THEN JsTrue ELSE m

---------------------------------------------------------------------------
(* The validator instances and the form.validate() passes.                 *)

\* a form.validate() call in progress: the method that made it, the
\* instance, the code reported, and whether setRequestApiError has been
\* called again on the instance since this pass began
Frame(op, v, code) == [op |-> op, v |-> v, code |-> code, reentered |-> FALSE]

NoCall == [v |-> "-", code |-> "", outcome |-> "none"]
Call(v, code, outcome) == [v |-> v, code |-> code, outcome |-> outcome]

\* a rule built by a factory and the value it is about to be applied to
NoInput ==
    [rule |-> "none", code |-> "", length |-> 0, prop |-> "",
     message |-> Undefined, v |-> Undefined]
Input(rule, code, length, prop, message, v) ==
    [rule |-> rule, code |-> code, length |-> length, prop |-> prop,
     message |-> message, v |-> v]

NoEval ==
    [rule |-> "none", owner |-> "-", code |-> "", length |-> 0, prop |-> "",
     message |-> Undefined, v |-> Undefined, result |-> Undefined]
Eval(rule, owner, code, length, prop, message, v, result) ==
    [rule |-> rule, owner |-> owner, code |-> code, length |-> length,
     prop |-> prop, message |-> message, v |-> v, result |-> result]

Top == stack[Len(stack)]
Pop == SubSeq(stack, 1, Len(stack) - 1)

\* the state before any `new VuetifyJetValidator()`
Init ==
    /\ constructed = {}
    /\ VALIDATOR_OBJECT = "-"
    /\ form = [v \in Validators |-> NoForm]
    /\ apiErrors = [v \in Validators |-> <<>>]
    /\ stack = <<>>
    /\ lastCall = NoCall
    /\ fields = InitFields
    /\ input = NoInput
    /\ evalLog = NoEval

\* new VuetifyJetValidator()
Construct(v) ==
    /\ v \notin constructed
    /\ constructed' = constructed \cup {v}
    /\ form' = [form EXCEPT ![v] = NoForm]
    /\ apiErrors' = [apiErrors EXCEPT ![v] = <<>>]
    /\ VALIDATOR_OBJECT' = v
    /\ evalLog' = NoEval
    /\ UNCHANGED <<stack, lastCall, fields, input>>

\* v.formIsValid(f), up to its call of form.validate()
FormIsValidCall(v, f) ==
    /\ v \in constructed
    /\ Len(stack) < MaxDepth
    /\ form' = [form EXCEPT ![v] = f]
    /\ stack' = Append(stack, Frame("formIsValid", v, ""))
    /\ evalLog' = NoEval
    /\ UNCHANGED <<constructed, VALIDATOR_OBJECT, apiErrors, lastCall, fields,
                   input>>

\* form.validate() returns to formIsValid, which returns its result
FormIsValidReturn ==
    /\ stack # <<>>
    /\ Top.op = "formIsValid"
    /\ stack' = Pop
    /\ evalLog' = NoEval
    /\ UNCHANGED <<constructed, VALIDATOR_OBJECT, form, apiErrors, lastCall,
                   fields, input>>

\* the passes in progress once v.setRequestApiError is called again
Reenter(v) ==
    [i \in 1..Len(stack) |->
        IF stack[i].op = "setRequestApiError" /\ stack[i].v = v
        THEN [stack[i] EXCEPT !.reentered = TRUE]
        ELSE stack[i]]

\* mutant: this.apiErrors.push(errorCode) instead of the assignment
SetRequestApiErrorCallAccumulate(v, errorCode) ==
    /\ v \in constructed
    /\ form[v] # NoForm => Len(stack) < MaxDepth
    /\ apiErrors' = [apiErrors EXCEPT ![v] = Append(@, errorCode)]
    /\ IF form[v] = NoForm
       THEN /\ lastCall' = Call(v, errorCode, "TypeError")
            /\ UNCHANGED stack
       ELSE /\ lastCall' = Call(v, errorCode, "called")
            /\ stack' = Append(Reenter(v), Frame("setRequestApiError", v, errorCode))
    /\ evalLog' = NoEval
    /\ UNCHANGED <<constructed, VALIDATOR_OBJECT, form, fields, input>>

\* v.setRequestApiError(errorCode), up to its call of this.form.validate();
\* with this.form still null that call is a TypeError, raised after the
\* assignment to this.apiErrors
SetRequestApiErrorCall(v, errorCode) ==
    /\ v \in constructed
    /\ form[v] # NoForm => Len(stack) < MaxDepth
    /\ apiErrors' = [apiErrors EXCEPT ![v] = <<errorCode>>]
    /\ IF form[v] = NoForm
       THEN /\ lastCall' = Call(v, errorCode, "TypeError")
            /\ UNCHANGED stack
       ELSE /\ lastCall' = Call(v, errorCode, "called")
            /\ stack' = Append(Reenter(v), Frame("setRequestApiError", v, errorCode))
    /\ evalLog' = NoEval
    /\ UNCHANGED <<constructed, VALIDATOR_OBJECT, form, fields, input>>

\* mutant: the reset after validate() left out
SetRequestApiErrorReturnNoReset ==
    /\ stack # <<>>
    /\ Top.op = "setRequestApiError"
    /\ stack' = Pop
    /\ lastCall' = Call(Top.v, Top.code, "returned")
    /\ evalLog' = NoEval
    /\ UNCHANGED <<constructed, VALIDATOR_OBJECT, form, apiErrors, fields, input>>

\* form.validate() returns to setRequestApiError: this.apiErrors = []
SetRequestApiErrorReturn ==
    /\ stack # <<>>
    /\ Top.op = "setRequestApiError"
    /\ apiErrors' = [apiErrors EXCEPT ![Top.v] = <<>>]
    /\ stack' = Pop
    /\ lastCall' = Call(Top.v, Top.code, "returned")
    /\ evalLog' = NoEval
    /\ UNCHANGED <<constructed, VALIDATOR_OBJECT, form, fields, input>>

\* form.validate() throws: neither method catches, so the exception leaves
\* the method with no statement after the call executed
ValidateThrow ==
    /\ stack # <<>>
    /\ stack' = Pop
    /\ lastCall' = IF Top.op = "setRequestApiError"
                   THEN Call(Top.v, Top.code, "threw")
                   ELSE lastCall
    /\ evalLog' = NoEval
    /\ UNCHANGED <<constructed, VALIDATOR_OBJECT, form, apiErrors, fields, input>>

\* the decision function owner.rules.api(errorCode, message) applied to v,
\* by the form during a pass or by the host directly.  The closure holds
\* errorCode, message and the shared rules object only, so when it was
\* created after `owner` was constructed makes no difference.
EvalApi(owner, errorCode, message, v) ==
    /\ owner \in constructed
    /\ evalLog' = Eval("api", owner, errorCode, 0, "", message, v,
                       ApiRule(errorCode, message, v))
    /\ UNCHANGED <<constructed, VALIDATOR_OBJECT, form, apiErrors, stack,
                   lastCall, fields, input>>

Next ==
    \/ \E v \in Validators : Construct(v)
    \/ \E v \in Validators, f \in Forms : FormIsValidCall(v, f)
    \/ FormIsValidReturn
    \/ \E v \in Validators, c \in Codes : SetRequestApiErrorCall(v, c)
    \/ SetRequestApiErrorReturn
    \/ ValidateThrow
    \/ \E owner \in Validators, c \in Codes, m \in {Undefined, Taken},
          v \in {Undefined, Str(<<"x">>)} : EvalApi(owner, c, m, v)

Spec == Init /\ [][Next]_vars

---------------------------------------------------------------------------
(* The decision functions on their own.                                    *)

\* the rules the host builds in data() and the values it applies them to
RuleInputs ==
    {Input("api", c, 0, "", m, v) :
        c \in Codes, m \in MessageArgs, v \in InputValues}
    \cup {Input(r, "", 0, "", m, v) :
        r \in {"email", "phone", "required", "username"},
        m \in MessageArgs, v \in InputValues}
    \cup {Input(r, "", n, "", m, v) :
        r \in {"maxLength", "minLength"}, n \in 0..MaxLimit,
        m \in MessageArgs, v \in InputValues}
    \cup {Input("matches", "", 0, p, m, v) :
        p \in Props, m \in MessageArgs, v \in Primitives}

\* one instance, fresh or after a setRequestApiError(c) that raised the
\* TypeError of an unbound form (both are states Spec reaches); the rule
\* under evaluation has been built, with `fields` as data() returns it
InitRules ==
    /\ constructed = {"A"}
    /\ VALIDATOR_OBJECT = "A"
    /\ form = [v \in Validators |-> NoForm]
    /\ stack = <<>>
    /\ fields = InitFields
    /\ input \in RuleInputs
    /\ evalLog = NoEval
    /\ \/ /\ apiErrors = [v \in Validators |-> <<>>]
          /\ lastCall = NoCall
       \/ \E c \in Codes :
            /\ apiErrors = [v \in Validators |-> IF v = "A" THEN <<c>> ELSE <<>>]
            /\ lastCall = Call("A", c, "TypeError")

validatorVars ==
    <<constructed, VALIDATOR_OBJECT, form, apiErrors, stack, lastCall>>

\* the host writes fields[p], e.g. through v-model
WriteField(p, val) ==
    /\ fields' = [fields EXCEPT ![p] = val]
    /\ evalLog' = NoEval
    /\ UNCHANGED <<validatorVars, input>>

\* the decision function of `input` applied to input.v
Apply(result) ==
    /\ evalLog' = Eval(input.rule, "A", input.code, input.length, input.prop,
                       input.message, input.v, result)
    /\ UNCHANGED <<validatorVars, fields, input>>

EvalEmail ==
    /\ input.rule = "email"
    /\ Apply(EmailRule(input.message, input.v))

EvalPhone ==
    /\ input.rule = "phone"
    /\ Apply(PhoneRule(input.message, input.v))

\* the rule was built by matches(fields, prop, message) when fields was
\* InitFields; the closure holds the reference, not the value
EvalMatches ==
    /\ input.rule = "matches"
    /\ Apply(MatchesRule(fields, input.prop, input.message, input.v))

EvalMaxLength ==
    /\ input.rule = "maxLength"
    /\ Apply(MaxLengthRule(input.length, input.message, input.v))

EvalMinLength ==
    /\ input.rule = "minLength"
    /\ Apply(MinLengthRule(input.length, input.message, input.v))

EvalRequired ==
    /\ input.rule = "required"
    /\ Apply(RequiredRule(input.message, input.v))

EvalUsername ==
    /\ input.rule = "username"
    /\ Apply(UsernameRule(input.message, input.v))

EvalApiInput ==
    /\ input.rule = "api"
    /\ EvalApi("A", input.code, input.message, input.v)

NextRules ==
    \/ \E p \in Props, val \in FieldValues : WriteField(p, val)
    \/ EvalApiInput
    \/ EvalEmail
    \/ EvalPhone
    \/ EvalMatches
    \/ EvalMaxLength
    \/ EvalMinLength
    \/ EvalRequired
    \/ EvalUsername

SpecRules == InitRules /\ [][NextRules]_vars

---------------------------------------------------------------------------
(* The claims.                                                             *)

\* the result a DecisionFunction may have: true or a non-empty string
TrueOrNonEmptyString(r) == r = JsTrue \/ (r.t = "string" /\ Len(r.s) > 0)

\* the setRequestApiError passes in progress
SetRequestFrames == {i \in 1..Len(stack) : stack[i].op = "setRequestApiError"}

Innermost == CHOOSE i \in SetRequestFrames : \A j \in SetRequestFrames : j <= i

\* the innermost setRequestApiError pass in progress is the one of
\* v.setRequestApiError(c), and v.setRequestApiError has not been called
\* again since that pass began
InPassOf(v, c) ==
    /\ SetRequestFrames # {}
    /\ stack[Innermost].v = v
    /\ stack[Innermost].code = c
    /\ ~stack[Innermost].reentered

\* C1: with a single validator, a decision function of rules.api(code,
\* message) returns message when it is evaluated during the validate()
\* pass of setRequestApiError(code) (a pass that does not call
\* setRequestApiError again), and returns true when it is evaluated after
\* that call has returned and before any later setRequestApiError call,
\* whatever value it is passed.
C1_ApiRuleFollowsThePass ==
    \A v \in Validators :
        (constructed = {v} /\ evalLog.rule = "api") =>
            /\ InPassOf(v, evalLog.code) => evalLog.result = evalLog.message
            /\ (SetRequestFrames = {}
                    /\ lastCall = Call(v, evalLog.code, "returned"))
                  => evalLog.result = JsTrue

C1_Witness ==
    /\ constructed = {"A"}
    /\ Len(stack) = 1
    /\ InPassOf("A", "dup-email")
    /\ evalLog.rule = "api"
    /\ evalLog.code = "dup-email"
    /\ evalLog.message = Taken
    /\ evalLog.v = Str(<<"x">>)
    /\ evalLog.result = Taken

\* C2: apiErrors of every validator is empty in every state in which no
\* form.validate() call made by setRequestApiError is in progress.
C2_ApiErrorsEmptyOutsidePass ==
    SetRequestFrames = {} => \A v \in constructed : apiErrors[v] = <<>>

\* C3: setRequestApiError(code) on a validator with no form bound raises an
\* error and changes nothing: apiErrors is empty afterwards, and an api
\* rule for that code evaluated in a later formIsValid pass returns true.
C3_UnboundCallChangesNothing ==
    lastCall.outcome = "TypeError" =>
        /\ apiErrors[lastCall.v] = <<>>
        /\ (/\ stack # <<>>
            /\ SetRequestFrames = {}
            /\ VALIDATOR_OBJECT = lastCall.v
            /\ evalLog.rule = "api"
            /\ evalLog.code = lastCall.code) => evalLog.result = JsTrue

\* C4: the decision function of rules.required(msg) returns msg for every
\* falsy value and every zero-length sequence, and true for every
\* non-empty string and non-empty sequence.
C4_RequiredFailsOnEmpty ==
    evalLog.rule = "required" =>
        LET v == evalLog.v
            msg == MessageOrDefault(evalLog.message, DefaultRequiredMessage)
            sequence == v.t \in {"string", "array"}
        IN  /\ (~ToBoolean(v) \/ (sequence /\ Len(v.s) = 0))
                  => evalLog.result = msg
            /\ (sequence /\ Len(v.s) > 0) => evalLog.result = JsTrue

\* C5 as claimed: every decision function of every factory, under every
\* configuration including an omitted message, returns true or a
\* non-empty string.
C5_EveryRuleTrueOrNonEmptyString ==
    evalLog.rule # "none" => TrueOrNonEmptyString(evalLog.result)

DefaultedRules ==
    {"email", "phone", "maxLength", "minLength", "required", "username"}

\* C5 as amended: the decision functions of email, phone, maxLength,
\* minLength, required and username return true or a non-empty string
\* under every message argument (omitted and empty ones fall back to the
\* default); those of api and matches do so when a non-empty string
\* message is supplied.
C5_TrueOrNonEmptyStringGivenMessage ==
    (\/ evalLog.rule \in DefaultedRules
     \/ /\ evalLog.rule \in {"api", "matches"}
        /\ evalLog.message.t = "string"
        /\ Len(evalLog.message.s) > 0)
        => TrueOrNonEmptyString(evalLog.result)

C5_Witness ==
    /\ evalLog.rule = "email"
    /\ evalLog.message = Undefined
    /\ evalLog.v = Undefined
    /\ evalLog.result = DefaultEmailMessage

\* C6: the decision function of rules.matches(object, propertyName,
\* message) returns true iff its input is strictly equal to the value
\* object[propertyName] holds when it is evaluated, after any writes to
\* the object, and evaluating it leaves the object as it is.
C6_MatchesReadsCurrentValue ==
    /\ [](evalLog.rule = "matches" =>
            (evalLog.result = JsTrue <=> evalLog.v = fields[evalLog.prop]))
    /\ [][EvalMatches => fields' = fields]_vars

C6_Witness ==
    /\ evalLog.rule = "matches"
    /\ evalLog.message = Taken
    /\ fields[evalLog.prop] # InitFields[evalLog.prop]
    /\ evalLog.v = fields[evalLog.prop]
    /\ evalLog.result = JsTrue

\* C7: the decision functions of rules.email, rules.phone and
\* rules.username return the failure message, not true, for every input
\* that is undefined, null, a number or a boolean.
C7_PatternRulesRejectNonStrings ==
    (/\ evalLog.rule \in {"email", "phone", "username"}
     /\ evalLog.v.t \in {"undefined", "null", "number", "boolean"})
        => /\ evalLog.result # JsTrue
           /\ evalLog.result =
                MessageOrDefault(evalLog.message,
                    CASE evalLog.rule = "email" -> DefaultEmailMessage
                      [] evalLog.rule = "phone" -> DefaultPhoneMessage
                      [] OTHER -> DefaultUsernameMessage)

\* C8: during the validate() pass v.setRequestApiError(code) triggers (a
\* pass that does not call setRequestApiError again), v.apiErrors is
\* exactly <<code>> whatever earlier calls reported and however they
\* ended, so a rules.api decision function for another code, reading this
\* validator, returns true.
C8_CallReplacesActiveSet ==
    \A v \in Validators, c \in Codes :
        InPassOf(v, c) =>
            /\ apiErrors[v] = <<c>>
            /\ (VALIDATOR_OBJECT = v /\ evalLog.rule = "api" /\ evalLog.code # c)
                  => evalLog.result = JsTrue

C8_Witness ==
    /\ constructed = {"A"}
    /\ Len(stack) = 2
    /\ stack[1].op = "setRequestApiError"
    /\ stack[1].code = "dup-email"
    /\ InPassOf("A", "other")
    /\ evalLog.rule = "api"
    /\ evalLog.code = "dup-email"
    /\ evalLog.message = Taken
    /\ evalLog.result = JsTrue

\* C9: when validate(), running for v.setRequestApiError(c1), calls
\* v.setRequestApiError(c2) with c2 # c1, v.apiErrors is <<c2>> during the
\* nested pass (until that pass is itself re-entered), and once the nested call has returned it is empty while the
\* outer pass still runs, so a rules.api(c1, msg) decision function
\* evaluated in the rest of the outer pass returns true.
C9_ReentrantCallLosesOuterCode ==
    /\ \A i \in 1..(Len(stack) - 1) :
          (/\ i + 1 = Len(stack)
           /\ stack[i].op = "setRequestApiError"
           /\ stack[i + 1].op = "setRequestApiError"
           /\ stack[i + 1].v = stack[i].v
           /\ stack[i + 1].code # stack[i].code
           /\ ~stack[i + 1].reentered)
              => apiErrors[stack[i].v] = <<stack[i + 1].code>>
    /\ (/\ stack # <<>>
        /\ Top.op = "setRequestApiError"
        /\ lastCall.outcome = "returned"
        /\ lastCall.v = Top.v)
          => /\ Top.reentered
             /\ apiErrors[Top.v] = <<>>
             /\ (/\ VALIDATOR_OBJECT = Top.v
                 /\ evalLog.rule = "api"
                 /\ evalLog.code = Top.code) => evalLog.result = JsTrue

C9_Witness ==
    /\ constructed = {"A"}
    /\ Len(stack) = 1
    /\ Top = [Frame("setRequestApiError", "A", "dup-email")
                EXCEPT !.reentered = TRUE]
    /\ lastCall = Call("A", "other", "returned")
    /\ evalLog.rule = "api"
    /\ evalLog.code = "dup-email"
    /\ evalLog.message = Taken
    /\ evalLog.result = JsTrue

\* C10: a decision function obtained from a.rules.api(code, message)
\* returns message during the validate() pass of a.setRequestApiError(code)
\* and true during the pass of another validator's
\* setRequestApiError(code), in whatever order the two were constructed.
C10_ServerErrorsArePerInstance ==
    \A a \in Validators, b \in Validators :
        (/\ evalLog.rule = "api"
         /\ evalLog.owner = a
         /\ Len(stack) = 1
         /\ InPassOf(b, evalLog.code))
            => evalLog.result = IF a = b THEN evalLog.message ELSE JsTrue

=============================================================================
